---- MODULE Spec2Model ----
(***************************************************************************)
(* A state-machine model of the per-model worker pool of                  *)
(* src/src/domain/thread-pool.js: one ThreadPool, its Workers, the jobs    *)
(* submitted to it, the background dequeue sweep, drain and the hot        *)
(* reload of ThreadPoolFactory.                                            *)
(*                                                                         *)
(* Main-side JavaScript runs to completion: one action is one macrotask    *)
(* (a call from outside, a worker message, a timer) together with the      *)
(* promise continuations it schedules.  The one continuation kept as a     *)
(* step of its own is the one of run() after `await this.threadAlloc()`    *)
(* yielded no thread: a caller that submits several jobs back to back      *)
(* runs between the two halves.  While such a continuation is pending no   *)
(* macrotask (worker message, timer) can run.                              *)
(***************************************************************************)
EXTENDS Integers, Sequences, FiniteSets, TLC

\* thread-pool.js:8-10
DEFAULT_THREADPOOL_MIN == 1
DEFAULT_THREADPOOL_MAX == 2
DEFAULT_JOBQUEUE_TOLERANCE == 25

\* Bounds of the model: the jobs submitted among reloads, timeouts and
\* errors, the jobs of a burst of submissions, the Workers ever created.
MaxJobs == 3
MaxBurst == 4
MaxWorkers == 3
MaxReloads == 1
MaxEmits == 2
MaxEvents == 3
MaxStrLen == 2
MaxWhole == 10
PoolWorkers == 2

Jobs == 1..MaxBurst
Threads == 1..MaxWorkers

\* What `await this.startThread()` yields when newThread rejected: the
\* promise's .catch(console.error) turns the rejection into undefined.
Undefined == 0

VARIABLES
  \* ThreadPool fields (constructor, lines 146-159)
  closed, totalThreads, freeThreads, waitingJobs,
  jobsRequested, jobsQueued, reloads,
  \* options
  minThreads, maxThreads, queueTolerance, preload,
  \* Workers ever created, by threadId; the jobs ever submitted, by number
  threads, jobs,
  \* stopThreads' pending 1000 ms timers, each holding its `kill` array
  killTimers,
  \* the constructor's preload startThreads, the reload in progress,
  \* the loop index of each startThreads call
  preloadPc, rpc, startI,
  \* the latest drain() called from outside: how its promise settled
  dstate,
  \* the value of reloads when the latest reload was called
  reloadsAtStart,
  \* ThreadPoolFactory: the Map threadPools (key -> pool), and the latest
  \* call of a factory function with its outcome
  threadPools, called,
  \* event-router.js in a Worker of one pool: the registered model specs,
  \* what listen() has wired, the events the pool's model has emitted on
  \* its broker and the invocations of the consuming model's callback
  modelSpecs, router, emitted, invoked, forwarded,
  \* the MeshUplink of invoke-port.js: the module's socket `ws` (its
  \* readyState, or "none" while unset), the WebSocket objects created so
  \* far, and what became of each event passed to publishEvent
  ws, connections, events,
  \* the sandbox ABI of WasmInterop: the object passed to callWasmFunction,
  \* the pairs clean made of it, and what lift returned
  obj, kv, lifted

poolVars == <<closed, totalThreads, freeThreads, waitingJobs,
              jobsRequested, jobsQueued, reloads>>
optVars == <<minThreads, maxThreads, queueTolerance, preload>>
procVars == <<preloadPc, rpc, startI, dstate, reloadsAtStart>>
factoryVars == <<threadPools, called>>
routerVars == <<modelSpecs, router, emitted, invoked, forwarded>>
uplinkVars == <<ws, connections, events>>
abiVars == <<obj, kv, lifted>>
meshVars == <<routerVars, uplinkVars, abiVars>>
vars == <<poolVars, optVars, threads, jobs, killTimers, procVars, factoryVars,
          meshVars>>

----------------------------------------------------------------------------
\* Pure helpers

\* Math.round((jobsQueued / jobsRequested) * 100), for jobsRequested > 0
JobQueueRateOnceQueued(queued, requested) ==
  (200 * (queued + 1) + requested) \div (2 * requested)
JobQueueRate(queued, requested) ==
  (200 * queued + requested) \div (2 * requested)

\* this.jobsQueued++, once in a run() that queues its job
jobsQueuedIncTwice(n) == n + 2
jobsQueuedInc(n) == n + 1

\* what jobQueueRate() returns before any submission: 0 / 0
NaN == "NaN"

noJobsRunning(total, free) == total = Len(free)

\* the condition of threadAlloc under which it starts a Worker
threadAllocAtTie(total, max, rate, tolerance) ==
  total = 0 \/ (total < max /\ rate >= tolerance)
threadAlloc(total, max, rate, tolerance) ==
  total = 0 \/ (total < max /\ rate > tolerance)

InSeq(x, s) == \E i \in DOMAIN s : s[i] = x

\* worker.threadId: Workers are numbered in the order of their creation
NewThreadId == Cardinality({t \in Threads : threads[t].state # "none"}) + 1

\* createdAt (Date.now() in the code) is kept relative to the moment the
\* latest reload was called: "before" it or "since" it.
NoThread == [state |-> "none", job |-> 0, owner |-> "none",
             createdAt |-> "since"]
NoJob == [state |-> "new", posts |-> 0, via |-> "none", closedSubmit |-> FALSE]

\* newThread up to its await: the Worker exists and is counted, the Thread
\* is not yet handed to anyone.  owner is who awaits it: "run" (for job j),
\* "preload" or "reload" (a startThreads loop).
newThread(ths, owner, j) ==
  [ths EXCEPT ![NewThreadId] =
     [state |-> "starting", job |-> j, owner |-> owner,
      createdAt |-> "since"]]

\* postJob: the message handler is registered and the job is posted
postJobThread(ths, t, j) ==
  [ths EXCEPT ![t] = [@ EXCEPT !.state = "busy", !.job = j,
                               !.owner = "none"]]

\* via tells who called postJob: run itself ("direct"), the reply handler
\* ("reply") or the sweep ("sweep")
postJobJob(jbs, j, via) ==
  [jbs EXCEPT ![j] = [@ EXCEPT !.state = "posted", !.posts = @ + 1,
                                !.via = via]]

\* open(): jobs submitted while the pool was closed are no longer
\* "submitted during the current closure"
ClearClosedSubmit(jbs) ==
  [j \in Jobs |-> [jbs[j] EXCEPT !.closedSubmit = FALSE]]

\* no run() is suspended between threadAlloc and its enqueue
NoMicrotask == \A j \in Jobs : jobs[j].state # "alloc"

----------------------------------------------------------------------------
\* ThreadPoolFactory: names and the registry

\* A string is a sequence of letters, each with its case.
Letter(c, u) == [ch |-> c, up |-> u]

\* String.prototype.toUpperCase
toUpperCase(str) == [i \in DOMAIN str |-> [str[i] EXCEPT !.up = TRUE]]

\* The names callers pass: "ab", "AB" and "Cd"
ModelNames ==
  { <<Letter("a", FALSE), Letter("b", FALSE)>>,
    <<Letter("a", TRUE), Letter("b", TRUE)>>,
    <<Letter("c", TRUE), Letter("d", FALSE)>> }

\* the pattern "*" of listen
Star == <<Letter("*", FALSE)>>

\* A pool as the factory sees it (one whose jobs have all replied): made
\* tells whether the Map has the entry, stopped whether stopThreads took
\* its Threads and none was started since, reloading whether a reload of
\* it awaits its new Workers, listening whether listen attached a callback.
NoEntry == [made |-> FALSE, closed |-> FALSE, stopped |-> FALSE,
            reloading |-> FALSE, reloads |-> 0, listening |-> FALSE]
NewPool == [NoEntry EXCEPT !.made = TRUE]

\* threadPools.has(key); a key that was never set is not in the Map
has(map, key) == key \in DOMAIN map /\ map[key].made

\* Map.prototype.delete(key): a key is a string or an object, and an entry
\* is removed only if its key is the very value given
ObjectKey(pool) == [type |-> "object", val |-> pool]
delete(map, key) ==
  [k \in DOMAIN map |-> IF key.type = "string" /\ key.val = k
                          THEN NoEntry ELSE map[k]]

\* listPools(): the keys of the Map
listPools == {k \in ModelNames : threadPools[k].made}

NoCall == [fn |-> "none", poolName |-> <<>>, result |-> "none"]

----------------------------------------------------------------------------
\* event-router.js: ports and their classification

\* the models registered in the process; ThreadModel is workerData.poolName
\* of the Worker whose router is modelled
Models == {"A", "B"}
ThreadModel == "A"
Events == {"e1", "e2"}

\* a port property that is absent (undefined)
NoEvent == "undefined"

\* the ports of all specs, each with the modelName of its spec; ports with
\* neither event are filtered out
Ports(specs) ==
  {[modelName |-> m, consumesEvent |-> specs[m].consumesEvent,
    producesEvent |-> specs[m].producesEvent] : m \in
      {n \in Models : specs[n].consumesEvent # NoEvent \/
                      specs[n].producesEvent # NoEvent}}

getThreadLocalPorts(specs) ==
  {port \in Ports(specs) : port.modelName = ThreadModel}

\* getThreadRemotePorts: the argument of flatMap is not a function but the
\* expression Object.values(spec.ports)..., in which `spec` is bound
\* nowhere: evaluating it throws a ReferenceError, whatever the specs are.
getThreadRemotePorts(specs) == [threw |-> TRUE, ports |-> {}]

\* the three filters of listen(); === holds between two undefined
publishPorts(localPorts, remotePorts) ==
  {remote \in remotePorts :
     \E local \in localPorts : local.producesEvent = remote.consumesEvent}
subscribePorts(localPorts, remotePorts) ==
  {remote \in remotePorts :
     \E local \in localPorts : local.consumesEvent = remote.producesEvent}
unhandledPorts(localPorts, remotePorts) ==
  {remote \in localPorts :
     ~\E local \in remotePorts : local.producesEvent = remote.consumesEvent}

NoRouter == [state |-> "new", publishPorts |-> {}, subscribePorts |-> {},
             unhandledPorts |-> {}, channels |-> {}, toMain |-> {},
             ownChannel |-> FALSE]
NoPorts == [m \in Models |-> [consumesEvent |-> NoEvent,
                              producesEvent |-> NoEvent]]

----------------------------------------------------------------------------
InitPool ==
  /\ closed = FALSE
  /\ waitingJobs = <<>>
  /\ freeThreads = <<>>
  /\ jobsRequested = 0
  /\ jobsQueued = 0
  /\ reloads = 0
  \* the options range over the program's defaults, with min <= max
  /\ minThreads \in DEFAULT_THREADPOOL_MIN..DEFAULT_THREADPOOL_MAX
  /\ maxThreads \in minThreads..DEFAULT_THREADPOOL_MAX
  /\ queueTolerance = DEFAULT_JOBQUEUE_TOLERANCE
  /\ preload \in BOOLEAN
  /\ jobs = [j \in Jobs |-> NoJob]
  /\ killTimers = {}
  /\ rpc = "idle"
  /\ dstate = "idle"
  /\ reloadsAtStart = 0
  /\ startI = [p \in {"preload", "reload", "call"} |-> 0]
  \* options.preload: the constructor calls startThreads, which creates
  \* the first Worker before the constructor returns
  /\ IF preload
       THEN /\ totalThreads = 1
            /\ threads = [t \in Threads |->
                 IF t = 1 THEN [state |-> "starting", job |-> 0,
                                owner |-> "preload", createdAt |-> "since"]
                          ELSE NoThread]
            /\ preloadPc = "starting"
       ELSE /\ totalThreads = 0
            /\ threads = [t \in Threads |-> NoThread]
            /\ preloadPc = "off"

InitFactory ==
  /\ threadPools = [k \in ModelNames |-> NoEntry]
  /\ called = NoCall

\* `let ws` is unset, no event has been published
EventIds == 1..MaxEvents
NoEventYet == [state |-> "new", frames |-> 0]
InitUplink ==
  /\ ws = "none"
  /\ connections = 0
  /\ events = [ev \in EventIds |-> NoEventYet]

\* callWasmFunction has not been called
NotCalled == [threw |-> FALSE, called |-> FALSE, value |-> <<>>]
InitAbi ==
  /\ obj = <<>>
  /\ kv = <<>>
  /\ lifted = NotCalled

\* no model spec has a port, no router has been wired
InitMesh ==
  /\ InitUplink
  /\ InitAbi
  /\ modelSpecs = NoPorts
  /\ router = NoRouter
  /\ emitted = <<>>
  /\ invoked = 0
  /\ forwarded = 0

Init == InitPool /\ InitFactory /\ InitMesh

----------------------------------------------------------------------------
\* run(jobName, jobData), up to its first suspension
run ==
  /\ jobsRequested < MaxBurst
  /\ LET j == jobsRequested + 1 IN
     /\ jobsRequested' = j
     /\ IF closed
          THEN \* falls through to "no threads: queue job"
               /\ waitingJobs' = Append(waitingJobs, j)
               /\ jobsQueued' = jobsQueuedInc(jobsQueued)
               /\ jobs' = [jobs EXCEPT ![j] = [@ EXCEPT !.state = "waiting",
                                                         !.closedSubmit = TRUE]]
               /\ UNCHANGED <<totalThreads, freeThreads, threads>>
          ELSE IF freeThreads # <<>> /\ Head(freeThreads) # Undefined
          THEN \* a free Thread: postJob on it
               /\ freeThreads' = Tail(freeThreads)
               /\ threads' = postJobThread(threads, Head(freeThreads), j)
               /\ jobs' = postJobJob(jobs, j, "direct")
               /\ UNCHANGED <<totalThreads, waitingJobs, jobsQueued>>
          ELSE \* shift() gave undefined (empty list or an undefined entry)
               /\ freeThreads' = IF freeThreads = <<>> THEN <<>>
                                 ELSE Tail(freeThreads)
               /\ IF threadAlloc(totalThreads, maxThreads,
                                 JobQueueRate(jobsQueued, j), queueTolerance)
                    THEN /\ NewThreadId <= MaxWorkers
                         /\ totalThreads' = totalThreads + 1
                         /\ threads' = newThread(threads, "run", j)
                         /\ jobs' = [jobs EXCEPT ![j].state = "starting"]
                    ELSE /\ jobs' = [jobs EXCEPT ![j].state = "alloc"]
                         /\ UNCHANGED <<totalThreads, threads>>
               /\ UNCHANGED <<waitingJobs, jobsQueued>>
     /\ UNCHANGED <<closed, reloads, optVars, factoryVars, meshVars, killTimers, procVars>>

\* run() as one of at most MaxJobs submissions
submit == jobsRequested < MaxJobs /\ run

\* run() resumed after threadAlloc yielded no thread: the job is queued.
\* Continuations run in the order in which they were scheduled.
runEnqueue ==
  \E j \in Jobs :
    /\ jobs[j].state = "alloc"
    /\ \A k \in Jobs : jobs[k].state = "alloc" => j <= k
    /\ waitingJobs' = Append(waitingJobs, j)
    /\ jobsQueued' = jobsQueuedInc(jobsQueued)
    /\ jobs' = [jobs EXCEPT ![j].state = "waiting"]
    /\ UNCHANGED <<closed, totalThreads, freeThreads, jobsRequested, reloads,
                   optVars, factoryVars, meshVars, threads, killTimers, procVars>>

----------------------------------------------------------------------------
\* startThreads resumed after `await this.startThread()` yielded v (a
\* Thread, or Undefined after a start timeout): the value is pushed and the
\* loop goes on; after the last iteration the caller's continuation runs
\* (the constructor's .then, or reload's open / bumpDeployCount / resolve).
startThreads(p, v, ths, jbs) ==
  LET free1 == Append(freeThreads, v)
      i1 == startI[p] + 1
  IN IF i1 < minThreads
       THEN /\ NewThreadId <= MaxWorkers
            /\ freeThreads' = free1
            /\ totalThreads' = totalThreads + 1
            /\ threads' = newThread(ths, p, 0)
            /\ startI' = [startI EXCEPT ![p] = i1]
            /\ jobs' = jbs
            /\ UNCHANGED <<closed, reloads, preloadPc, rpc>>
       ELSE IF p = "preload"
       THEN \* () => (this.totalThreads = this.freeThreads.length)
            /\ freeThreads' = free1
            /\ totalThreads' = Len(free1)
            /\ threads' = ths
            /\ preloadPc' = "done"
            /\ jobs' = jbs
            /\ UNCHANGED <<closed, reloads, rpc, startI>>
       ELSE IF p = "reload"
       THEN \* pool.open().bumpDeployCount().notify(poolOpen); resolve(pool)
            /\ freeThreads' = free1
            /\ threads' = ths
            /\ closed' = FALSE
            /\ reloads' = reloads + 1
            /\ rpc' = "done"
            /\ jobs' = ClearClosedSubmit(jbs)
            /\ UNCHANGED <<totalThreads, preloadPc, startI>>
       ELSE \* called from outside: `return this`
            /\ freeThreads' = free1
            /\ threads' = ths
            /\ jobs' = jbs
            /\ UNCHANGED <<closed, totalThreads, reloads, preloadPc, rpc,
                           startI>>

\* pool.startThreads() called from outside, up to the await of its first
\* Worker; one such call at a time
startThreadsCall ==
  /\ \A t \in Threads :
       ~(threads[t].state = "starting" /\ threads[t].owner = "call")
  /\ NewThreadId <= MaxWorkers
  /\ totalThreads' = totalThreads + 1
  /\ threads' = newThread(threads, "call", 0)
  /\ startI' = [startI EXCEPT !["call"] = 0]
  /\ UNCHANGED <<closed, freeThreads, waitingJobs, jobsRequested, jobsQueued,
                 reloads, optVars, factoryVars, meshVars, jobs, killTimers, preloadPc, rpc, dstate,
                 reloadsAtStart>>

\* reload resumed after drain resolved with the pool: stopThreads, then
\* startThreads up to the await of its first Worker.  free1 is freeThreads
\* at that moment.
\* A Thread spliced out of freeThreads into stopThreads' `kill` array: it
\* is alive until the 1000 ms timer calls its stop()
splicedDead(th) == [th EXCEPT !.state = "terminated"]
spliced(th) == [th EXCEPT !.state = "stopping"]

stopThreads(free1, ths, jbs) ==
  /\ NewThreadId <= MaxWorkers
  /\ freeThreads' = <<>>
  /\ totalThreads' = 0 + 1
  /\ threads' = newThread(
       [t \in Threads |-> IF InSeq(t, free1) THEN spliced(ths[t])
                                              ELSE ths[t]],
       "reload", 0)
  /\ killTimers' = IF free1 = <<>> THEN killTimers
                   ELSE killTimers \cup {free1}
  /\ rpc' = "starting"
  /\ startI' = [startI EXCEPT !["reload"] = 0]
  /\ jobs' = jbs

\* destroy resumed after drain resolved with the pool: stopThreads, then
\* threadPools.delete.  free1 is freeThreads at that moment.
destroyStop(free1, ths, jbs) ==
  /\ freeThreads' = <<>>
  /\ totalThreads' = 0
  /\ threads' = [t \in Threads |-> IF InSeq(t, free1) THEN spliced(ths[t])
                                                       ELSE ths[t]]
  /\ killTimers' = IF free1 = <<>> THEN killTimers
                   ELSE killTimers \cup {free1}
  /\ rpc' = "destroyed"
  /\ jobs' = jbs
  /\ startI' = startI

\* The Worker's first message (the ready handshake) arrives.
threadReady(t) ==
  /\ NoMicrotask
  /\ threads[t].state = "starting"
  /\ IF threads[t].owner = "run"
       THEN \* run() resumes with the Thread and posts its job
            /\ threads' = postJobThread(threads, t, threads[t].job)
            /\ jobs' = postJobJob(jobs, threads[t].job, "direct")
            /\ UNCHANGED <<closed, totalThreads, freeThreads, reloads,
                           preloadPc, rpc, startI>>
       ELSE startThreads(threads[t].owner, t,
                         [threads EXCEPT ![t] = [@ EXCEPT !.state = "idle",
                                                          !.owner = "none"]],
                         jobs)
  /\ UNCHANGED <<waitingJobs, jobsRequested, jobsQueued, optVars, factoryVars, meshVars, killTimers,
                 dstate, reloadsAtStart>>

\* newThread's setTimeout(reject, 10000) fires before the handshake: the
\* awaiting code gets undefined; the Worker stays counted and alive.
startTimeout(t) ==
  /\ NoMicrotask
  /\ threads[t].state = "starting"
  /\ IF threads[t].owner = "run"
       THEN \* run(): no thread, queue the job
            /\ threads' = [threads EXCEPT ![t] = [@ EXCEPT !.state = "orphan",
                                                           !.job = 0,
                                                           !.owner = "none"]]
            /\ waitingJobs' = Append(waitingJobs, threads[t].job)
            /\ jobsQueued' = jobsQueuedInc(jobsQueued)
            /\ jobs' = [jobs EXCEPT ![threads[t].job].state = "waiting"]
            /\ UNCHANGED <<closed, totalThreads, freeThreads, reloads,
                           preloadPc, rpc, startI>>
       ELSE /\ startThreads(threads[t].owner, Undefined,
                            [threads EXCEPT ![t] = [@ EXCEPT !.state = "orphan",
                                                             !.owner = "none"]],
                            jobs)
            /\ UNCHANGED <<waitingJobs, jobsQueued>>
  /\ UNCHANGED <<jobsRequested, optVars, factoryVars, meshVars, killTimers, dstate, reloadsAtStart>>

\* freeThreads after the reply handler's if/else: the Thread goes back to
\* the free list only when no continuation was waiting for it
\* the entry Array.prototype.shift returns: the oldest one, undefined on
\* an empty array
last(q) == IF q = <<>> THEN Undefined ELSE q[Len(q)]
first(q) == IF q = <<>> THEN Undefined ELSE Head(q)

replyFreeAlways(handoff, free, t) == Append(free, t)
replyFreeNever(handoff, free, t) == free
replyFree(handoff, free, t) == IF handoff THEN free ELSE Append(free, t)

\* The Worker replies to the job posted on Thread t: the 'message' handler
\* that postJob registered runs.
reply(t) ==
  /\ NoMicrotask
  /\ threads[t].state = "busy"
  /\ LET j == threads[t].job
         handoff == waitingJobs # <<>>
         free1 == replyFree(handoff, freeThreads, t)
         ths == IF handoff
                  THEN postJobThread(threads, t, first(waitingJobs))
                  ELSE [threads EXCEPT ![t] = [@ EXCEPT !.state = "idle",
                                                         !.job = 0]]
         jbs0 == [jobs EXCEPT ![j].state = "resolved"]
         jbs == IF handoff
                  THEN postJobJob(jbs0, first(waitingJobs), "reply")
                  ELSE jbs0
         emit == noJobsRunning(totalThreads, free1)
     IN
     /\ waitingJobs' = IF handoff THEN Tail(waitingJobs) ELSE waitingJobs
     \* pool.emit('noJobsRunning'): every pending drain resolves
     /\ dstate' = IF emit /\ dstate = "waiting" THEN "resolved" ELSE dstate
     /\ IF emit /\ rpc = "draining"
          THEN /\ stopThreads(free1, ths, jbs)
               /\ UNCHANGED <<closed, reloads, preloadPc>>
          ELSE IF emit /\ rpc = "destroying"
          THEN /\ destroyStop(free1, ths, jbs)
               /\ UNCHANGED <<closed, reloads, preloadPc>>
          ELSE /\ freeThreads' = free1
               /\ threads' = ths
               /\ jobs' = jbs
               /\ UNCHANGED <<closed, totalThreads, reloads, killTimers,
                              preloadPc, rpc, startI>>
  /\ UNCHANGED <<jobsRequested, jobsQueued, optVars, factoryVars, meshVars, reloadsAtStart>>

\* The Worker of Thread t emits 'error' while it owns a job: postJob's
\* promise rejects and .catch(console.error) resolves it with undefined.
\* A job posted by run() itself has its future resolved with that
\* undefined; a job posted from waitingJobs is resolved only by the cb of
\* the reply handler, so its future stays pending for ever.  The Thread is
\* not returned and totalThreads is not changed.
workerError(t) ==
  /\ NoMicrotask
  /\ threads[t].state = "busy"
  /\ threads' = [threads EXCEPT ![t] = [@ EXCEPT !.state = "terminated",
                                                 !.job = 0]]
  /\ jobs' = [jobs EXCEPT ![threads[t].job] =
                IF @.via = "direct"
                  THEN [@ EXCEPT !.state = "resolved", !.via = "error"]
                  ELSE [@ EXCEPT !.state = "lost", !.via = "error"]]
  /\ UNCHANGED <<poolVars, optVars, factoryVars, meshVars, killTimers, procVars>>

\* this.waitingJobs.shift(): what is left of the queue
shiftPeeks(q) == q
shift(q) == Tail(q)

\* the condition under which a tick of the sweep hands a job off
sweepReadyIfWaiting(free, waiting) == Len(waiting) > 0
sweepReady(free, waiting) == Len(free) > 0 /\ Len(waiting) > 0

\* One tick of setInterval(dequeue, 1500): when both lists are non-empty
\* the oldest continuation is called with the oldest free entry, else
\* nothing happens.  A continuation handed undefined throws inside
\* postJob's executor: the job is gone from the queue and its future is
\* never resolved.
dequeue ==
  /\ NoMicrotask
  /\ IF sweepReady(freeThreads, waitingJobs)
       THEN /\ waitingJobs' = shift(waitingJobs)
            /\ freeThreads' = IF freeThreads = <<>> THEN freeThreads
                              ELSE shift(freeThreads)
            /\ IF first(freeThreads) = Undefined
                 THEN /\ jobs' = [jobs EXCEPT
                                    ![Head(waitingJobs)].state = "lost"]
                      /\ UNCHANGED threads
                 ELSE /\ threads' = postJobThread(threads, Head(freeThreads),
                                                  Head(waitingJobs))
                      /\ jobs' = postJobJob(jobs, Head(waitingJobs), "sweep")
       ELSE UNCHANGED <<waitingJobs, freeThreads, jobs, threads>>
  /\ UNCHANGED <<closed, totalThreads, jobsRequested, jobsQueued, reloads,
                 optVars, factoryVars, meshVars, killTimers, procVars>>

close ==
  /\ closed' = TRUE
  /\ UNCHANGED <<totalThreads, freeThreads, waitingJobs, jobsRequested,
                 jobsQueued, reloads, optVars, factoryVars, meshVars, threads, jobs, killTimers,
                 procVars>>

open ==
  /\ closed' = FALSE
  /\ jobs' = ClearClosedSubmit(jobs)
  /\ UNCHANGED <<totalThreads, freeThreads, waitingJobs, jobsRequested,
                 jobsQueued, reloads, optVars, factoryVars, meshVars, threads, killTimers, procVars>>

drainUnchecked ==
  /\ dstate # "waiting"
  /\ dstate' = IF noJobsRunning(totalThreads, freeThreads)
               THEN "resolved"
               ELSE "waiting"
  /\ UNCHANGED <<poolVars, optVars, factoryVars, meshVars, threads, jobs, killTimers, preloadPc,
                 rpc, startI, reloadsAtStart>>

\* drain() called from outside (not through reload), once the previous
\* such call has settled
drain ==
  /\ dstate # "waiting"
  /\ dstate' = IF ~closed THEN "rejected"
               ELSE IF noJobsRunning(totalThreads, freeThreads)
               THEN "resolved"
               ELSE "waiting"
  /\ UNCHANGED <<poolVars, optVars, factoryVars, meshVars, threads, jobs, killTimers, preloadPc,
                 rpc, startI, reloadsAtStart>>

\* drain's setTimeout(reject, 4000): .catch(console.error) resolves the
\* promise with undefined
drainTimeout ==
  /\ NoMicrotask
  /\ dstate = "waiting"
  /\ dstate' = "timedout"
  /\ UNCHANGED <<poolVars, optVars, factoryVars, meshVars, threads, jobs, killTimers, preloadPc,
                 rpc, startI, reloadsAtStart>>

\* ThreadPoolFactory.reload(poolName) for the pool; one reload at a time.
reload ==
  /\ rpc \in {"idle", "done", "aborted"}
  /\ reloadsAtStart' = reloads
  /\ closed' = TRUE
  /\ LET ths == [t \in Threads |->  \* every Thread so far predates this call
                   IF threads[t].state = "none" THEN threads[t]
                   ELSE [threads[t] EXCEPT !.createdAt = "before"]]
     IN IF noJobsRunning(totalThreads, freeThreads)
          THEN stopThreads(freeThreads, ths, jobs)
          ELSE /\ rpc' = "draining"
               /\ threads' = ths
               /\ UNCHANGED <<totalThreads, freeThreads, jobs, killTimers,
                              startI>>
  /\ UNCHANGED <<waitingJobs, jobsRequested, jobsQueued, reloads, optVars, factoryVars, meshVars,
                 preloadPc, dstate>>

\* The 4000 ms timeout of reload's drain: drain resolves with undefined,
\* `pool => pool.stopThreads()` throws on it, and reload's .catch rejects;
\* nothing after drain is executed.
reloadDrainTimeout ==
  /\ NoMicrotask
  /\ rpc = "draining"
  /\ rpc' = "aborted"
  /\ UNCHANGED <<poolVars, optVars, factoryVars, meshVars, threads, jobs, killTimers, preloadPc,
                 startI, dstate, reloadsAtStart>>

\* ThreadPoolFactory.destroy(poolName) for the pool: close, drain, and
\* when drain resolves, stopThreads.
poolDestroy ==
  /\ rpc \in {"idle", "done", "aborted"}
  /\ closed' = TRUE
  /\ IF noJobsRunning(totalThreads, freeThreads)
       THEN destroyStop(freeThreads, threads, jobs)
       ELSE /\ rpc' = "destroying"
            /\ UNCHANGED <<totalThreads, freeThreads, threads, jobs,
                           killTimers, startI>>
  /\ UNCHANGED <<waitingJobs, jobsRequested, jobsQueued, reloads, optVars,
                 factoryVars, meshVars, preloadPc, dstate, reloadsAtStart>>

\* The 4000 ms timeout of destroy's drain: as in reload, stopThreads is
\* called on undefined and destroy rejects; the pool stays closed.
destroyDrainTimeout ==
  /\ NoMicrotask
  /\ rpc = "destroying"
  /\ rpc' = "destroyAborted"
  /\ UNCHANGED <<poolVars, optVars, factoryVars, meshVars, threads, jobs, killTimers,
                 preloadPc, startI, dstate, reloadsAtStart>>

\* The threads of `kill` that kill.map(thread => thread.stop()) reaches:
\* the callback throws on an undefined entry and map stops there.
Stopped(k) ==
  {k[i] : i \in {n \in DOMAIN k : \A m \in 1..n : k[m] # Undefined}}

\* stopThreads' 1000 ms timer fires: each Thread reached is sent shutdown
\* and exits (or is terminated 5000 ms later).
kill(k) ==
  /\ NoMicrotask
  /\ k \in killTimers
  /\ killTimers' = killTimers \ {k}
  /\ threads' = [t \in Threads |->
                   IF t \in Stopped(k)
                     THEN [threads[t] EXCEPT !.state = "terminated"]
                     ELSE threads[t]]
  /\ UNCHANGED <<poolVars, optVars, factoryVars, meshVars, jobs, procVars>>

----------------------------------------------------------------------------
\* The whole pool: submissions, Workers, the sweep, close/open and reload,
\* with start timeouts and Worker errors.
Next ==
  \/ submit
  \/ runEnqueue
  \/ \E t \in Threads : threadReady(t)
  \/ \E t \in Threads : startTimeout(t)
  \/ \E t \in Threads : reply(t)
  \/ \E t \in Threads : workerError(t)
  \/ dequeue
  \/ close
  \/ open
  \/ reload
  \/ reloadDrainTimeout
  \/ \E k \in killTimers : kill(k)

Spec == Init /\ [][Next]_vars

\* drain() called on the pool directly, between submissions, replies,
\* the sweep and close/open.
NextDrain ==
  \/ submit
  \/ runEnqueue
  \/ \E t \in Threads : threadReady(t)
  \/ \E t \in Threads : reply(t)
  \/ dequeue
  \/ close
  \/ open
  \/ drain
  \/ drainTimeout

SpecDrain == Init /\ [][NextDrain]_vars

\* Submissions and Thread completions only, on a pool created without
\* preload (the default of getThreadPool).
InitRun == Init /\ ~preload

NextRun ==
  \/ submit
  \/ runEnqueue
  \/ \E t \in Threads : threadReady(t)
  \/ \E t \in Threads : reply(t)
  \/ dequeue
  \/ close
  \/ open

SpecRun == InitRun /\ [][NextRun]_vars

TypeOK ==
  /\ closed \in BOOLEAN
  /\ totalThreads \in Nat
  /\ jobsRequested \in 0..MaxBurst
  /\ jobsQueued \in 0..MaxBurst
  /\ \A i \in DOMAIN freeThreads : freeThreads[i] \in Threads \cup {Undefined}
  /\ \A i \in DOMAIN waitingJobs : waitingJobs[i] \in Jobs
  /\ rpc \in {"idle", "draining", "starting", "done", "aborted",
             "destroying", "destroyed", "destroyAborted"}
  /\ dstate \in {"idle", "waiting", "resolved", "rejected", "timedout"}
  /\ \A t \in Threads : threads[t].state \in
       {"none", "starting", "orphan", "idle", "busy", "stopping", "terminated"}
  /\ \A j \in Jobs : jobs[j].state \in
       {"new", "alloc", "starting", "waiting", "posted", "resolved", "lost"}

----------------------------------------------------------------------------
\* Conditions of a Thread

InFree(t) == InSeq(t, freeThreads)
Executing(t) == threads[t].state = "busy"
Terminated(t) == threads[t].state = "terminated"

\* jobs that run() has placed (on a Thread, on a Worker being started for
\* them, or on waitingJobs) and whose future is not resolved
Unresolved == {j \in Jobs : jobs[j].state \in {"starting", "posted", "waiting"}}

----------------------------------------------------------------------------
\* C1: in every reachable state 0 <= totalThreads <= max.
C1_TotalThreadsWithinMax == 0 <= totalThreads /\ totalThreads <= maxThreads

\* C2: in every reachable state freeThreads has at most totalThreads
\* entries.
C2_FreeAtMostTotal == Len(freeThreads) <= totalThreads

C4_ConsumedExactlyOnce ==
  \A j \in Jobs :
    /\ jobs[j].posts <= 1
    /\ jobs[j].state = "resolved" => jobs[j].posts = 1

C4_Witness ==
  \E j, k \in Jobs :
    /\ jobs[j].state = "resolved" /\ jobs[j].via = "sweep"
    /\ jobs[k].state = "resolved" /\ jobs[k].via = "reply"

\* C5: every Thread handed to the pool (its start settled) is in exactly
\* one of: an entry of freeThreads, executing a job, terminated.
C5_FreeXorExecutingXorTerminated ==
  \A t \in Threads :
    threads[t].state \notin {"none", "starting"} =>
      \/ InFree(t) /\ ~Executing(t) /\ ~Terminated(t)
      \/ ~InFree(t) /\ Executing(t) /\ ~Terminated(t)
      \/ ~InFree(t) /\ ~Executing(t) /\ Terminated(t)

\* C6: a job submitted while the pool is closed is not posted to any Thread
\* before the pool is opened again.
C6_ClosedAdmitsNoNewJob ==
  \A j \in Jobs : jobs[j].closedSubmit => jobs[j].posts = 0

\* C7: when a drain() on the closed pool resolves with the pool, no Thread
\* has an unreplied job (no job is posted and unresolved).
C7_DrainResolvesAfterResults ==
  [][(dstate' = "resolved" /\ dstate' # dstate) =>
       (\A t \in Threads : threads'[t].state # "busy")]_vars

\* C8: a drain() called while the pool is open rejects and leaves closed,
\* totalThreads, freeThreads, waitingJobs and the counters as they were.
C8_DrainOnOpenPoolRejects ==
  [][(~closed /\ dstate # "waiting" /\ dstate' # dstate) =>
       (dstate' = "rejected" /\ UNCHANGED poolVars)]_vars

C8_Witness ==
  /\ dstate = "rejected"
  /\ ~closed
  /\ \E t \in Threads : Executing(t)

\* C9: a reload whose drain timed out still ends with the pool open.
C9_ReloadReopensAfterDrainTimeout == rpc = "aborted" => ~closed

\* C10: when reload completes, reloads has grown by exactly 1, the pool is
\* open and every Thread the pool owns was created since reload was called.
C10_ReloadRenewsThreads ==
  [][(rpc = "starting" /\ rpc' = "done") =>
       /\ reloads' = reloadsAtStart' + 1
       /\ ~closed'
       /\ \A t \in Threads :
            threads'[t].state \in {"starting", "idle", "busy"} =>
              threads'[t].createdAt = "since"]_vars

----------------------------------------------------------------------------
\* One hot reload of a pool created without preload, among submissions:
\* every Worker starts and replies to every job (no start timeout, no
\* Worker error), and the sweep keeps ticking.  The drain of the reload may
\* or may not time out.
reloadOnce == rpc = "idle" /\ reload

NextReload ==
  \/ submit
  \/ runEnqueue
  \/ \E t \in Threads : threadReady(t)
  \/ \E t \in Threads : reply(t)
  \/ dequeue
  \/ reloadOnce
  \/ reloadDrainTimeout
  \/ \E k \in killTimers : kill(k)

\* the event loop runs every pending continuation, every Worker sends its
\* handshake and its reply, setInterval keeps calling dequeue
FairReload ==
  /\ WF_vars(runEnqueue)
  /\ WF_vars(dequeue)
  /\ \A t \in Threads : WF_vars(threadReady(t)) /\ WF_vars(reply(t))

SpecReload == InitRun /\ [][NextReload]_vars /\ FairReload

C12_NoStartWhileOldAlive ==
  [][(rpc # "starting" /\ rpc' = "starting") =>
       (\A t \in Threads : threads'[t].state # "stopping")]_vars

\* C12 (amended): in the very step in which stopThreads empties
\* freeThreads, startThreads creates its first Worker, and every Thread
\* that was removed is still alive then (it is terminated later, by the
\* 1000 ms timer of stopThreads).
C12_StartsWhileOldAlive ==
  [][(rpc # "starting" /\ rpc' = "starting") =>
       /\ freeThreads' = <<>>
       /\ \E t \in Threads : /\ threads[t].state = "none"
                             /\ threads'[t].state = "starting"
                             /\ threads'[t].owner = "reload"
       /\ \A t \in Threads :
            (InFree(t) \/ (threads[t].state = "busy" /\
                           threads'[t].state # "busy"))
              => /\ threads'[t].state = "stopping"
                 /\ \E k \in killTimers' : InSeq(t, k)]_vars

C12_Witness ==
  /\ rpc = "starting"
  /\ \E t \in Threads : threads[t].state = "stopping"
  /\ \E t \in Threads : threads[t].state = "starting" /\
                        threads[t].owner = "reload"

----------------------------------------------------------------------------
\* pool.startThreads() called directly on a pool created without preload,
\* among submissions.
NextStart ==
  \/ startThreadsCall
  \/ submit
  \/ runEnqueue
  \/ \E t \in Threads : threadReady(t)
  \/ \E t \in Threads : reply(t)
  \/ dequeue

SpecStart == InitRun /\ [][NextStart]_vars

\* C13: a call of startThreads() creates a Worker only on a pool that has
\* no Threads (totalThreads = 0 and freeThreads empty).
C13_StartThreadsRejectsIfThreadsExist ==
  [][(\E t \in Threads : /\ threads[t].state = "none"
                         /\ threads'[t].owner = "call"
                         /\ startI'["call"] = 0)
       => (totalThreads = 0 /\ freeThreads = <<>>)]_vars

----------------------------------------------------------------------------
\* A burst of up to MaxBurst submissions to a pool created without
\* preload; every Worker starts and replies.  (On a pool that is never
\* closed the sweep finds nothing to do: a free Thread and a waiting job
\* never coexist.)
NextBurst ==
  \/ run
  \/ runEnqueue
  \/ \E t \in Threads : threadReady(t)
  \/ \E t \in Threads : reply(t)

FairBurst ==
  /\ WF_vars(runEnqueue)
  /\ \A t \in Threads : WF_vars(threadReady(t)) /\ WF_vars(reply(t))

SpecBurst == InitRun /\ [][NextBurst]_vars /\ FairBurst

\* C14: a submit to the open pool that finds no free Thread starts a Worker
\* iff totalThreads = 0 or (totalThreads < max and queueRate > tolerance);
\* otherwise its continuation puts the job on waitingJobs and adds 1 to
\* jobsQueued.  A rate equal to the tolerance does not grow the pool.
C14_GrowsIffAllocCondition ==
  [][/\ (/\ jobsRequested' = jobsRequested + 1
         /\ ~closed
         /\ (freeThreads = <<>> \/ Head(freeThreads) = Undefined))
        => LET j == jobsRequested'
               grow == \/ totalThreads = 0
                       \/ /\ totalThreads < maxThreads
                          /\ JobQueueRate(jobsQueued, j) > queueTolerance
               started == \E t \in Threads : /\ threads[t].state = "none"
                                             /\ threads'[t].state = "starting"
                                             /\ threads'[t].job = j
           IN /\ grow <=> started
              /\ started => totalThreads' = totalThreads + 1
              /\ ~grow => /\ jobs'[j].state = "alloc"
                          /\ totalThreads' = totalThreads
     /\ \A j \in Jobs :
          (jobs[j].state = "alloc" /\ jobs'[j].state # "alloc")
            => /\ waitingJobs' = Append(waitingJobs, j)
               /\ jobsQueued' = jobsQueued + 1]_vars

\* the tie: the rate equals the tolerance, the pool is below max, and the
\* job was queued
C14_Witness ==
  /\ totalThreads = 1
  /\ maxThreads = 2
  /\ jobsQueued = 2
  /\ JobQueueRate(jobsQueued - 1, jobsRequested) = queueTolerance
  /\ jobs[jobsRequested].state = "waiting"
  /\ \A t \in Threads : ~InFree(t)

\* The elastic-growth scenario: min = 1, max = 2, tolerance 25, and no job
\* has replied yet (each job outlasts the submissions).
Elastic ==
  /\ minThreads = 1
  /\ maxThreads = 2
  /\ queueTolerance = 25
  /\ \A j \in Jobs : jobs[j].state # "resolved"

AllResolved == \A j \in Jobs : jobs[j].state = "resolved"

\* C15 (as stated): the second submission starts Thread #2, the third and
\* the fourth are queued, all four jobs resolve and totalThreads ends at 2.
C15_SecondSubmissionGrows ==
  /\ [][(Elastic /\ jobsRequested = 1 /\ jobsRequested' = 2)
          => (totalThreads' = 2 /\ jobs'[2].state = "starting")]_vars
  /\ [][(Elastic /\ jobsRequested >= 2 /\ jobsRequested' = jobsRequested + 1)
          => jobs'[jobsRequested'].state = "alloc"]_vars
  /\ (minThreads = 1 /\ maxThreads = 2 /\ jobsRequested = MaxBurst)
       ~> (AllResolved /\ totalThreads = 2)

\* C15 (amended): the second submission never starts Thread #2 (jobsQueued
\* is still 0, so the rate is 0) and is queued; a later submission starts
\* it only when the rate it sees exceeds 25: the third once the second has
\* been queued (33), the fourth once two jobs have been queued (50).  All
\* four jobs resolve, and totalThreads ends at 2 if Thread #2 was started
\* and at 1 if it was not.
C15_LaterSubmissionGrows ==
  /\ [][(Elastic /\ jobsRequested = 1 /\ jobsRequested' = 2)
          => (totalThreads' = 1 /\ jobs'[2].state = "alloc")]_vars
  /\ [][(Elastic /\ jobsRequested = 2 /\ jobsRequested' = 3)
          => IF jobsQueued = 1
               THEN totalThreads' = 2 /\ jobs'[3].state = "starting"
               ELSE totalThreads' = 1 /\ jobs'[3].state = "alloc"]_vars
  /\ [][(Elastic /\ jobsRequested = 3 /\ jobsRequested' = 4)
          => IF totalThreads = 1 /\ jobsQueued = 2
               THEN totalThreads' = 2 /\ jobs'[4].state = "starting"
               ELSE totalThreads' = totalThreads /\ jobs'[4].state = "alloc"]_vars
  /\ (minThreads = 1 /\ maxThreads = 2 /\ jobsRequested = MaxBurst)
       ~> /\ AllResolved
          /\ totalThreads = Cardinality({t \in Threads :
                                           threads[t].state # "none"})
          /\ totalThreads \in 1..2

C15_Witness ==
  /\ minThreads = 1
  /\ maxThreads = 2
  /\ AllResolved
  /\ totalThreads = 2
  /\ jobs[3].via = "direct"
  /\ jobs[2].via = "reply"
  /\ jobs[4].via = "reply"

\* status(): the report of the pool
status ==
  [open |-> ~closed, max |-> maxThreads, min |-> minThreads,
   total |-> totalThreads, waiting |-> Len(waitingJobs),
   available |-> Len(freeThreads), transactions |-> jobsRequested,
   queueRate |-> IF jobsRequested = 0 THEN NaN
                 ELSE JobQueueRate(jobsQueued, jobsRequested),
   tolerance |-> queueTolerance, reloads |-> reloads]

\* C16: jobsQueued <= jobsRequested in every reachable state, and the
\* queueRate that status() reports never exceeds 100.
C16_QueueRateAtMost100 ==
  /\ jobsQueued <= jobsRequested
  /\ jobsRequested > 0 => status.queueRate <= 100

C16_Witness ==
  /\ jobsRequested = MaxJobs
  /\ status.queueRate = 100
  /\ \E j \in Jobs : jobs[j].state = "resolved"

\* C17: when the Worker of a Thread dies while it owns a job, totalThreads
\* is decremented by one and the job's future fails.
C17_WorkerDeathRemovesThread ==
  [][\A t \in Threads :
       (threads[t].state = "busy" /\ threads'[t].state = "terminated")
         => /\ totalThreads' = totalThreads - 1
            /\ jobs'[threads[t].job].state = "failed"]_vars

----------------------------------------------------------------------------
\* ThreadPoolFactory.  The pool-side variables are those of one pool's
\* internals and are left alone here.
poolSide == <<poolVars, optVars, threads, jobs, killTimers, procVars>>

\* getPool(poolName) of getThreadPool: run by the facade's run() and
\* status(), or at once when options.preload.  createThreadPool stores the
\* new pool under modelName as it was given.
getPool(poolName) ==
  /\ threadPools' = IF has(threadPools, poolName) THEN threadPools
                    ELSE [threadPools EXCEPT ![poolName] = NewPool]
  /\ called' = [fn |-> "getPool", poolName |-> poolName, result |-> "pool"]
  /\ UNCHANGED <<poolSide, meshVars>>

\* reload(poolName), up to the await of the new Workers.  Without a pool,
\* reject('no such pool') is followed by pool.close() throwing inside the
\* executor; the promise is already rejected.
factoryReload(poolName) ==
  /\ LET key == toUpperCase(poolName) IN
     IF ~has(threadPools, key)
       THEN /\ called' = [fn |-> "reload", poolName |-> poolName,
                          result |-> "no such pool"]
            /\ UNCHANGED threadPools
       ELSE /\ ~threadPools[key].reloading
            /\ threadPools[key].reloads < MaxReloads
            /\ threadPools' = [threadPools EXCEPT ![key] =
                 [@ EXCEPT !.closed = TRUE, !.stopped = FALSE,
                           !.reloading = TRUE]]
            /\ called' = [fn |-> "reload", poolName |-> poolName,
                          result |-> "pending"]
  /\ UNCHANGED <<poolSide, meshVars>>

\* the last .then of reload: pool.open().bumpDeployCount(); resolve(pool)
reloadOpen(key) ==
  /\ has(threadPools, key)
  /\ threadPools[key].reloading
  /\ threadPools' = [threadPools EXCEPT ![key] =
       [@ EXCEPT !.closed = FALSE, !.reloading = FALSE,
                 !.reloads = @ + 1]]
  /\ UNCHANGED <<called, poolSide, meshVars>>

\* destroy(poolName): close, drain, stopThreads, then
\* resolve(threadPools.delete(pool)), whose argument is the pool object
destroy(poolName) ==
  /\ LET key == toUpperCase(poolName) IN
     IF ~has(threadPools, key)
       THEN /\ called' = [fn |-> "destroy", poolName |-> poolName,
                          result |-> "no such pool"]
            /\ UNCHANGED threadPools
       ELSE LET stopped == [threadPools EXCEPT ![key] =
                              [@ EXCEPT !.closed = TRUE, !.stopped = TRUE]]
                after == delete(stopped, ObjectKey(key))
            IN /\ threadPools' = after
               /\ called' = [fn |-> "destroy", poolName |-> poolName,
                             result |-> IF has(after, key) THEN "false"
                                                           ELSE "true"]
  /\ UNCHANGED <<poolSide, meshVars>>

\* status(poolName): threadPools.get(poolName.toUpperCase()).status()
factoryStatus(poolName) ==
  /\ called' = [fn |-> "status", poolName |-> poolName,
                result |-> IF has(threadPools, toUpperCase(poolName))
                             THEN "report" ELSE "TypeError"]
  /\ UNCHANGED <<threadPools, poolSide, meshVars>>

\* [...threadPools]: the entries of the Map, each an array [key, value]
entries == {[type |-> "array", key |-> k, value |-> threadPools[k]] :
              k \in listPools}

\* x.name: a pool has a name (its key), an array has none
nameOf(x) == IF x.type = "pool" THEN x.name ELSE "undefined"

\* listen(cb, poolName, eventName).  With "*", forEach hands each pool to
\* the callback; otherwise find's callback evaluates pool.name.toUpperCase()
\* on an entry and throws when that name is undefined.
listen(poolName) ==
  /\ IF poolName = Star
       THEN /\ threadPools' = [k \in ModelNames |->
                 IF threadPools[k].made
                   THEN [threadPools[k] EXCEPT !.listening = TRUE]
                   ELSE threadPools[k]]
            /\ called' = [fn |-> "listen", poolName |-> poolName,
                          result |-> "attached"]
       ELSE IF \E e \in entries : nameOf(e) = "undefined"
       THEN /\ called' = [fn |-> "listen", poolName |-> poolName,
                          result |-> "TypeError"]
            /\ UNCHANGED threadPools
       ELSE \* find returned undefined: ?.on is skipped
            /\ called' = [fn |-> "listen", poolName |-> poolName,
                          result |-> "none"]
            /\ UNCHANGED threadPools
  /\ UNCHANGED <<poolSide, meshVars>>

NextFactory ==
  \/ \E n \in ModelNames : getPool(n)
  \/ \E n \in ModelNames : factoryReload(n)
  \/ \E k \in ModelNames : reloadOpen(k)
  \/ \E n \in ModelNames : destroy(n)
  \/ \E n \in ModelNames : factoryStatus(n)
  \/ \E n \in ModelNames \cup {Star} : listen(n)

SpecFactory == InitRun /\ [][NextFactory]_vars

\* C18: every key of the registry is an upper-cased name, no two keys are
\* casings of one name, and reload, destroy and status called with a name
\* through which a pool was created find a pool.
C18_KeysAreUpperCased ==
  /\ \A k \in listPools : k = toUpperCase(k)
  /\ \A k1, k2 \in listPools :
       toUpperCase(k1) = toUpperCase(k2) => k1 = k2
  /\ (called.fn \in {"reload", "destroy", "status"} /\
      called.poolName \in listPools)
       => called.result \notin {"no such pool", "TypeError"}

\* C19: once destroy(name) has run for an existing pool, the pool is
\* closed, its Threads are stopped and the registry has no entry for it.
C19_DestroyRemovesEntry ==
  [][(called' # called /\ called'.fn = "destroy" /\
      called'.result # "no such pool")
       => LET key == toUpperCase(called'.poolName)
          IN /\ key \notin {k \in ModelNames : threadPools'[k].made}
             /\ threadPools[key].made]_vars

\* C20: listen does not fail on a non-empty registry; it attaches the
\* callback to a pool whose name matches case-insensitively (to every pool
\* for "*") and to no other pool.
C20_ListenAttachesToMatch ==
  [][(called' # called /\ called'.fn = "listen")
       => LET n == called'.poolName
              match(k) == /\ threadPools[k].made
                          /\ (n = Star \/ toUpperCase(k) = toUpperCase(n))
          IN /\ listPools # {} => called'.result # "TypeError"
             /\ \A k \in ModelNames :
                  ~match(k) => threadPools'[k].listening =
                                 threadPools[k].listening
             /\ (\E k \in ModelNames : match(k))
                  => \E k \in ModelNames :
                       match(k) /\ threadPools'[k].listening]_vars

----------------------------------------------------------------------------
\* destroy of the pool among submissions: every Worker starts and replies,
\* the sweep keeps ticking; destroy's drain may or may not time out.
NextDestroy ==
  \/ submit
  \/ runEnqueue
  \/ \E t \in Threads : threadReady(t)
  \/ \E t \in Threads : reply(t)
  \/ dequeue
  \/ poolDestroy
  \/ destroyDrainTimeout
  \/ \E k \in killTimers : kill(k)

SpecDestroy == InitRun /\ [][NextDestroy]_vars /\ FairReload

\* C21: a submit to a pool that is being destroyed or has been destroyed
\* gets a pool-destroyed error at once, and no job stays for ever on the
\* waitingJobs of a destroyed pool.
C21_SubmitToDestroyedPoolFails ==
  /\ [][(rpc \in {"destroying", "destroyed"} /\
         jobsRequested' = jobsRequested + 1)
          => jobs'[jobsRequested'].state = "failed"]_vars
  /\ \A j \in Jobs :
       (rpc = "destroyed" /\ jobs[j].state = "waiting")
         ~> (jobs[j].state \in {"resolved", "failed"})

----------------------------------------------------------------------------
\* PortEventRouter in a Worker of pool ThreadModel

\* listen(): classify the ports and wire the broker and the channels
routerListen ==
  /\ router.state = "new"
  /\ LET localPorts == getThreadLocalPorts(modelSpecs)
         remote == getThreadRemotePorts(modelSpecs)
         pub == publishPorts(localPorts, remote.ports)
         sub == subscribePorts(localPorts, remote.ports)
         unh == unhandledPorts(localPorts, remote.ports)
     IN router' =
          IF remote.threw
            THEN \* nothing after line 63 is executed
                 [router EXCEPT !.state = "threw"]
            ELSE [state |-> "listening", publishPorts |-> pub,
                  subscribePorts |-> sub, unhandledPorts |-> unh,
                  channels |-> {port.modelName : port \in pub \cup sub},
                  toMain |-> {port.producesEvent : port \in unh},
                  ownChannel |-> TRUE]
  /\ UNCHANGED <<poolSide, factoryVars, modelSpecs, emitted, invoked,
                 forwarded, uplinkVars,
                 abiVars>>

\* The model of this pool emits event e on the Worker's broker.  Each
\* publish port wired for e posts a copy to the channel of its model, where
\* every Worker of that pool listens on the pool's own channel and
\* notifies its broker (handleChannelEvent); each unhandled port wired for
\* e notifies to_main.  PoolWorkers is the number of Workers of the
\* consuming pool.
emit(e) ==
  /\ Len(emitted) < MaxEmits
  /\ emitted' = Append(emitted, e)
  /\ invoked' = invoked + PoolWorkers *
       Cardinality({port \in router.publishPorts : port.consumesEvent = e})
  /\ forwarded' = forwarded + Cardinality({port \in router.unhandledPorts :
                                             port.producesEvent = e})
  /\ UNCHANGED <<poolSide, factoryVars, modelSpecs, router, uplinkVars,
                 abiVars>>

\* every registered model has one port, with any of its two events absent
\* or named
InitRouter ==
  /\ InitPool
  /\ ~preload
  /\ InitFactory
  /\ modelSpecs \in [Models -> [consumesEvent : Events \cup {NoEvent},
                                producesEvent : Events \cup {NoEvent}]]
  /\ router = NoRouter
  /\ emitted = <<>>
  /\ invoked = 0
  /\ forwarded = 0
  /\ InitUplink
  /\ InitAbi

NextRouter ==
  \/ routerListen
  \/ \E e \in Events : emit(e)

SpecRouter == InitRouter /\ [][NextRouter]_vars

\* the classification as specified
LocalPorts == {port \in Ports(modelSpecs) : port.modelName = ThreadModel}
RemotePorts == Ports(modelSpecs) \ LocalPorts

\* C22: once listen() has run, PublishPorts are the remote ports that
\* consume a named event some local port produces, SubscribePorts the
\* remote ports that produce a named event some local port consumes.
C22_RouterClassification ==
  router.state # "new" =>
    /\ router.state = "listening"
    /\ router.publishPorts =
         {R \in RemotePorts : \E L \in LocalPorts :
            L.producesEvent # NoEvent /\ L.producesEvent = R.consumesEvent}
    /\ router.subscribePorts =
         {R \in RemotePorts : \E L \in LocalPorts :
            L.consumesEvent # NoEvent /\ L.consumesEvent = R.producesEvent}

\* a local port that produces an event no registered port consumes
Unhandled(port) ==
  /\ port \in LocalPorts
  /\ port.producesEvent # NoEvent
  /\ ~\E c \in Ports(modelSpecs) : c.consumesEvent = port.producesEvent

\* C23: once listen() has run, the unhandled ports are exactly the local
\* ports producing an event no one consumes, each emission of such an
\* event is forwarded to to_main once, and an event that has a consumer is
\* not forwarded.
C23_UnhandledForwardedToMain ==
  [][(router.state # "new" /\ emitted' # emitted)
       => LET e == emitted'[Len(emitted')]
          IN /\ router.unhandledPorts = {port \in LocalPorts : Unhandled(port)}
             /\ forwarded' = forwarded +
                  (IF \E port \in LocalPorts :
                        Unhandled(port) /\ port.producesEvent = e
                     THEN 1 ELSE 0)]_vars

\* C24: once listen() has run, an emission of an event that this pool's
\* model produces and the other model consumes invokes the consumer's
\* callback exactly once.
C24_ConsumerInvokedOnce ==
  [][(router.state # "new" /\ emitted' # emitted)
       => LET e == emitted'[Len(emitted')]
          IN ((\E L \in LocalPorts : L.producesEvent = e) /\
              (\E R \in RemotePorts : R.consumesEvent = e))
               => invoked' = invoked + 1]_vars

----------------------------------------------------------------------------
\* MeshUplink (invoke-port.js, lines 60-148)

\* `if (ws.readyState)`: CONNECTING is 0, every other state is truthy
readyState(state) == state # "CONNECTING"

\* send(), the inner function of webswitch, for event ev: ws.send when
\* readyState is truthy, else setTimeout(send, 1000).  ws.send on a socket
\* that is not OPEN transmits nothing.
send(ev) ==
  events' = [events EXCEPT ![ev] =
    IF readyState(ws)
      THEN IF ws = "OPEN"
             THEN [state |-> "sent", frames |-> @.frames + 1]
             ELSE [@ EXCEPT !.state = "sentOnClosed"]
      ELSE [@ EXCEPT !.state = "retrying"]]

\* publishEvent(event, observer) with a non-empty event, the host address
\* being resolved.  Without a socket, webswitch creates one, registers its
\* handlers and returns: send is not reached.
publishEvent ==
  \E ev \in EventIds :
    /\ events[ev].state = "new"
    /\ \A other \in EventIds : other < ev => events[other].state # "new"
    /\ IF ws = "none"
         THEN /\ ws' = "CONNECTING"
              /\ connections' = connections + 1
              /\ events' = [events EXCEPT ![ev].state = "dropped"]
         ELSE /\ send(ev)
              /\ UNCHANGED <<ws, connections>>
    /\ UNCHANGED <<poolSide, factoryVars, routerVars, abiVars>>

\* the timer of setTimeout(send, 1000) fires
retrySend(ev) ==
  /\ events[ev].state = "retrying"
  /\ send(ev)
  /\ UNCHANGED <<ws, connections, poolSide, factoryVars, routerVars, abiVars>>

\* the socket opens (its 'open' handler sends the "webswitch" greeting)
wsOpen ==
  /\ ws = "CONNECTING"
  /\ ws' = "OPEN"
  /\ UNCHANGED <<connections, events, poolSide, factoryVars, routerVars,
                 abiVars>>

\* the connection is lost: the socket goes to CLOSING, then CLOSED; no
\* handler resets `ws`
wsClosing ==
  /\ ws = "OPEN"
  /\ ws' = "CLOSING"
  /\ UNCHANGED <<connections, events, poolSide, factoryVars, routerVars,
                 abiVars>>

wsClosed ==
  /\ ws \in {"CONNECTING", "CLOSING"}
  /\ ws' = "CLOSED"
  /\ UNCHANGED <<connections, events, poolSide, factoryVars, routerVars,
                 abiVars>>

NextUplink ==
  \/ publishEvent
  \/ \E ev \in EventIds : retrySend(ev)
  \/ wsOpen
  \/ wsClosing
  \/ wsClosed

\* timers fire, and a socket that is connecting opens unless it is closed
FairUplink ==
  /\ \A ev \in EventIds : WF_vars(retrySend(ev))
  /\ WF_vars(wsOpen)

SpecUplink == InitRun /\ [][NextUplink]_vars /\ FairUplink

\* C25: every event passed to publishEvent is sent as exactly one frame
\* once the socket is ready (unless the connection is lost), and never as
\* more than one.
C25_EveryEventSentOnce ==
  /\ [](\A ev \in EventIds : events[ev].frames <= 1)
  /\ \A ev \in EventIds :
       (events[ev].state # "new")
         ~> (events[ev].frames = 1 \/ ws \in {"CLOSING", "CLOSED"})

\* C26: a publishEvent after the socket was closed creates a new
\* connection, and send is called on the socket only when it is OPEN.
C26_ReconnectsLazily ==
  /\ [][(ws = "CLOSED" /\ \E ev \in EventIds :
           events[ev].state = "new" /\ events'[ev].state # "new")
          => (ws' = "CONNECTING" /\ connections' = connections + 1)]_vars
  /\ [](\A ev \in EventIds : events[ev].state # "sentOnClosed")

----------------------------------------------------------------------------
\* The sandbox ABI: WasmInterop (parse, lift, clean, callWasmFunction)

\* JavaScript values: strings are sequences of characters, numbers are a
\* sign, a whole part and the fraction digits, booleans are whole 1 or 0
Str(cs) == [type |-> "string", neg |-> FALSE, whole |-> 0, chars |-> cs]
Num(n, w, f) == [type |-> "number", neg |-> n, whole |-> w, chars |-> f]
Bool(b) ==
  [type |-> "boolean", neg |-> FALSE, whole |-> IF b THEN 1 ELSE 0,
   chars |-> <<>>]
NotANumber == [type |-> "number", neg |-> FALSE, whole |-> 0, chars |-> <<"NaN">>]
JsUndefined == [type |-> "undefined", neg |-> FALSE, whole |-> 0, chars |-> <<>>]
EmptyObject == [type |-> "object", neg |-> FALSE, whole |-> 0, chars |-> <<>>]

Digits == <<"0", "1", "2", "3", "4", "5", "6", "7", "8", "9">>
IsDigit(c) == \E d \in 1..Len(Digits) : Digits[d] = c
DigitVal(c) == (CHOOSE d \in 1..Len(Digits) : Digits[d] = c) - 1

RECURSIVE DigitsOf(_)
DigitsOf(n) ==
  IF n < 10 THEN <<Digits[n + 1]>>
  ELSE DigitsOf(n \div 10) \o <<Digits[(n % 10) + 1]>>

RECURSIVE ValueOf(_)
ValueOf(ds) ==
  IF ds = <<>> THEN 0
  ELSE ValueOf(SubSeq(ds, 1, Len(ds) - 1)) * 10 + DigitVal(ds[Len(ds)])

RECURSIVE DigitPrefixLen(_)
DigitPrefixLen(cs) ==
  IF cs = <<>> \/ ~IsDigit(Head(cs)) THEN 0
  ELSE 1 + DigitPrefixLen(Tail(cs))

RECURSIVE StripZeros(_)
StripZeros(ds) ==
  IF ds # <<>> /\ ds[Len(ds)] = "0"
    THEN StripZeros(SubSeq(ds, 1, Len(ds) - 1))
    ELSE ds

\* v.toString() of a scalar
TrueChars == <<"t", "r", "u", "e">>
FalseChars == <<"f", "a", "l", "s", "e">>
toString(v) ==
  IF v.type = "string" THEN v.chars
  ELSE IF v.type = "boolean"
    THEN (IF v.whole = 1 THEN TrueChars ELSE FalseChars)
  ELSE IF v = NotANumber THEN <<"N", "a", "N">>
  ELSE (IF v.neg THEN <<"-">> ELSE <<>>) \o DigitsOf(v.whole)
       \o (IF v.chars = <<>> THEN <<>> ELSE <<".">> \o v.chars)

\* parseInt(v): an optional sign, then the longest prefix of digits (the
\* strings considered hold no white space and no "0x")
Signed(cs) == cs # <<>> /\ cs[1] \in {"-", "+"}
Unsigned(cs) == IF Signed(cs) THEN Tail(cs) ELSE cs
parseInt(cs) ==
  LET rest == Unsigned(cs)
      n == DigitPrefixLen(rest)
  IN  IF n = 0 THEN NotANumber
      ELSE Num(Signed(cs) /\ cs[1] = "-", ValueOf(SubSeq(rest, 1, n)), <<>>)

\* parseFloat(v): an optional sign, digits, and a point followed by digits
\* (the strings considered hold no exponent)
parseFloat(cs) ==
  LET rest == Unsigned(cs)
      n == DigitPrefixLen(rest)
      after == SubSeq(rest, n + 1, Len(rest))
      m == IF after # <<>> /\ after[1] = "." THEN DigitPrefixLen(Tail(after))
           ELSE 0
  IN  IF n = 0 /\ m = 0 THEN NotANumber
      ELSE Num(Signed(cs) /\ cs[1] = "-", ValueOf(SubSeq(rest, 1, n)),
               IF m = 0 THEN <<>> ELSE StripZeros(SubSeq(after, 2, m + 1)))

\* /true/i.test(v), /false/i.test(v): the word occurs somewhere in v,
\* whatever the case of its letters
toLowerCase(c) == IF c = "T" THEN "t" ELSE IF c = "F" THEN "f" ELSE c
test(word, cs) ==
  \E i \in 1..Len(cs) :
    /\ i + Len(word) - 1 <= Len(cs)
    /\ \A k \in 1..Len(word) : toLowerCase(cs[i + k - 1]) = word[k]

parse(cs) ==
  IF parseInt(cs) # NotANumber THEN parseInt(cs)
  ELSE IF parseFloat(cs) # NotANumber THEN parseFloat(cs)
  ELSE IF test(TrueChars, cs) THEN Bool(TRUE)
  ELSE IF test(FalseChars, cs) THEN Bool(FALSE)
  ELSE Str(cs)

\* the values a field may hold
AbiChars == {"1", ".", "-", "z"}
Strings ==
  UNION {[1..n -> AbiChars] : n \in 0..MaxStrLen}
    \cup {TrueChars, FalseChars, <<"T", "r", "u", "e">>}
Numbers ==
  {Num(n, w, f) : n \in BOOLEAN, w \in 0..MaxWhole, f \in {<<>>, <<"5">>}}
    \ {Num(TRUE, 0, <<>>)}
Scalars ==
  {Str(cs) : cs \in Strings} \cup Numbers \cup {Bool(TRUE), Bool(FALSE)}
Values == Scalars \cup {JsUndefined, EmptyObject}
Keys == {"port", "args"}
Objects == UNION {[ks -> Values] : ks \in SUBSET Keys}

isScalar(v) == v.type \in {"string", "number", "boolean"}
truthy(v) ==
  IF v.type = "string" THEN v.chars # <<>>
  ELSE IF v.type = "number" THEN v # NotANumber /\ (v.whole # 0 \/ v.chars # <<>>)
  ELSE IF v.type = "boolean" THEN v.whole = 1
  ELSE v.type = "object"

\* Object.entries(o), as the sequence of the keys
RECURSIVE KeySeq(_)
KeySeq(ks) ==
  IF ks = {} THEN <<>>
  ELSE LET k == CHOOSE x \in ks : TRUE IN <<k>> \o KeySeq(ks \ {k})

\* Object.entries of a primitive: a string has one entry for each of its
\* characters, any other value has none
EntriesOf(v) ==
  IF v.type = "string"
    THEN [k \in {Digits[i] : i \in 1..Len(v.chars)} |->
            Str(<<v.chars[DigitVal(k) + 1]>>)]
    ELSE <<>>

RECURSIVE Pairs(_, _)
Pairs(o, ks) ==
  IF ks = <<>> THEN <<>>
  ELSE (IF isScalar(o[Head(ks)])
          THEN <<<<Head(ks), toString(o[Head(ks)])>>>>
          ELSE <<>>) \o Pairs(o, Tail(ks))

convert(o) == Pairs(o, KeySeq(DOMAIN o))

clean(o) ==
  IF /\ "port" \in DOMAIN o
     /\ "args" \in DOMAIN o
     /\ truthy(o["port"])
     /\ truthy(o["args"])
    THEN convert(EntriesOf(o["args"]))
    ELSE convert(o)

\* lift(fn, kv) for an exported function that returns the pairs it was
\* given: every value goes through parse, and the reduce without an
\* initial value throws on an empty array
TypeError == [threw |-> TRUE, called |-> TRUE, value |-> <<>>]
lift(pairs) ==
  IF pairs = <<>> THEN TypeError
  ELSE [threw |-> FALSE, called |-> TRUE,
        value |-> [k \in {pairs[i][1] : i \in 1..Len(pairs)} |->
                     parse((CHOOSE pr \in {pairs[i] : i \in 1..Len(pairs)} :
                              pr[1] = k)[2])]]

callWasmFunction ==
  /\ ~lifted.called
  /\ kv' = clean(obj)
  /\ lifted' = lift(kv')
  /\ UNCHANGED <<obj, poolSide, factoryVars, routerVars, uplinkVars>>

\* any object of scalar and other fields may be passed
InitSandbox ==
  /\ InitPool
  /\ ~preload
  /\ InitFactory
  /\ modelSpecs = NoPorts
  /\ router = NoRouter
  /\ emitted = <<>>
  /\ invoked = 0
  /\ forwarded = 0
  /\ InitUplink
  /\ obj \in Objects
  /\ kv = <<>>
  /\ lifted = NotCalled

NextSandbox == callWasmFunction

SpecSandbox == InitSandbox /\ [][NextSandbox]_vars

AllScalar(o) == \A k \in DOMAIN o : isScalar(o[k])

\* C27: an object whose fields are all scalars comes back from clean then
\* lift equal to itself, and clean makes no pair of a field of another type.
C27_RoundTrip ==
  lifted.called =>
    /\ AllScalar(obj) =>
         /\ ~lifted.threw
         /\ DOMAIN lifted.value = DOMAIN obj
         /\ \A k \in DOMAIN obj : lifted.value[k] = obj[k]
    /\ \A i \in 1..Len(kv) :
         kv[i][1] \in DOMAIN obj => isScalar(obj[kv[i][1]])

----------------------------------------------------------------------------
\* C28: a tick of the sweep takes the same number n of entries, at most
\* min(|freeThreads|, |waitingJobs|), from the front of both lists (so none
\* when either is empty, and then nothing changes), leaves totalThreads,
\* jobsRequested, jobsQueued and closed alone, and creates no Worker.
C28_SweepFrame ==
  [][dequeue =>
       LET n == Len(waitingJobs) - Len(waitingJobs') IN
       /\ 0 <= n
       /\ n <= Len(freeThreads)
       /\ n <= Len(waitingJobs)
       /\ waitingJobs' = SubSeq(waitingJobs, n + 1, Len(waitingJobs))
       /\ freeThreads' = SubSeq(freeThreads, n + 1, Len(freeThreads))
       /\ (n = 0 => UNCHANGED <<threads, jobs>>)
       /\ UNCHANGED <<totalThreads, jobsRequested, jobsQueued, closed>>
       /\ \A t \in Threads :
            threads[t].state = "none" => threads'[t].state = "none"]_vars

\* a job is executing that the sweep handed to a free Thread
C28_Witness ==
  \E j \in Jobs : jobs[j].state = "posted" /\ jobs[j].via = "sweep"

----------------------------------------------------------------------------
\* the Worker of Thread t replies in this step
Replies(t) ==
  /\ threads[t].state = "busy"
  /\ jobs[threads[t].job].state = "posted"
  /\ jobs'[threads[t].job].state = "resolved"
  /\ jobs'[threads[t].job].via # "error"

\* C29: on a reply of Thread t with a job waiting, the oldest waiting job
\* is posted to t, which does not enter freeThreads; with none waiting, t
\* is appended to freeThreads.  Every posted, unreplied job is the one job
\* of its Thread, and a job leaves waitingJobs only from the front.
C29_ReplyHandsOffInOrder ==
  /\ [][\A t \in Threads : Replies(t) =>
          IF waitingJobs # <<>>
            THEN /\ waitingJobs' = Tail(waitingJobs)
                 /\ threads'[t].state = "busy"
                 /\ threads'[t].job = Head(waitingJobs)
                 /\ jobs'[Head(waitingJobs)].state = "posted"
                 /\ ~InSeq(t, freeThreads')
            ELSE /\ waitingJobs' = waitingJobs
                 /\ \/ freeThreads' = Append(freeThreads, t)
                    \/ rpc' # rpc]_vars
  /\ [](\A j \in Jobs : jobs[j].state = "posted" =>
          Cardinality({t \in Threads : threads[t].state = "busy"
                                         /\ threads[t].job = j}) = 1)
  /\ [][\A j \in Jobs :
          (jobs[j].state = "waiting" /\ jobs'[j].state # "waiting")
            => (waitingJobs # <<>> /\ j = Head(waitingJobs))]_vars

\* two jobs waited; the first was handed to the Thread that replied and is
\* resolved, the second was handed over by a later reply
C29_Witness ==
  \E j, k \in Jobs :
    /\ j < k
    /\ jobs[j].state = "resolved" /\ jobs[j].via = "reply"
    /\ jobs[k].state = "posted" /\ jobs[k].via = "reply"
    /\ freeThreads = <<>>

----------------------------------------------------------------------------
\* no Thread has been posted a job it has not replied to
NoUnrepliedJob == \A t \in Threads : ~Executing(t)

\* C30: noJobsRunning() is true exactly when no Thread has an unreplied
\* job.
C30_NoJobsRunningIffNoUnreplied ==
  noJobsRunning(totalThreads, freeThreads) <=> NoUnrepliedJob

====
